---- MODULE Spec2Model ----
(***************************************************************************)
(* Model of the STM324x9I-EVAL NOR flash BSP driver                        *)
(* (stm324x9i_eval_nor.c).  The driver is a thin layer over an external    *)
(* NOR controller library: every public function issues a fixed sequence   *)
(* of controller calls and maps the controller's answer to                 *)
(* NOR_STATUS_OK / NOR_STATUS_ERROR.  The model records, for every public  *)
(* call, the controller calls it issued (in order, with their arguments),  *)
(* the answers the controller gave and the value returned.  The answers    *)
(* of the controller and the level of the Ready/Busy pin are inputs the    *)
(* driver does not control; they are drawn nondeterministically.           *)
(*                                                                         *)
(* A uint32_t is a pair <<hi, lo>> of 16-bit halves so that address        *)
(* arithmetic wraps modulo 2^32 as in C.                                   *)
(***************************************************************************)
EXTENDS Integers, Sequences, FiniteSets, TLC

----------------------------------------------------------------------------
(* Bounds of the model *)

\* longest caller buffer (uwDataSize) explored
MaxLen == 2
\* largest Timeout handed to HAL_NOR_MspWait
MaxTimeout == 4

----------------------------------------------------------------------------
(* uint32_t arithmetic *)

Half == 65536

\* uint32_t value of a small natural number
U32(n) == <<(n \div Half) % Half, n % Half>>

\* a + b on uint32_t (wraps modulo 2^32)
Add32(a, b) ==
  LET s == a[2] + b[2]
  IN  <<(a[1] + b[1] + (s \div Half)) % Half, s % Half>>

----------------------------------------------------------------------------
(* Constants of stm324x9i_eval_nor.h *)

NOR_DEVICE_ADDR == <<24576, 0>>          \* 0x60000000
PROGRAM_TIMEOUT == <<0, 17408>>          \* 0x00004400
BLOCKERASE_TIMEOUT == <<160, 0>>         \* 0x00A00000
CHIPERASE_TIMEOUT == <<12288, 0>>        \* 0x30000000
NOR_STATUS_OK == "NOR_STATUS_OK"
NOR_STATUS_ERROR == "NOR_STATUS_ERROR"
NOR_READY_STATE == "GPIO_PIN_SET"
NOR_BUSY_STATE == "GPIO_PIN_RESET"
NOR_MEMORY_WIDTH == "FMC_NORSRAM_MEM_BUS_WIDTH_16"
NOR_BURSTACCESS == "FMC_BURST_ACCESS_MODE_DISABLE"
NOR_WRITEBURST == "FMC_WRITE_BURST_DISABLE"
CONTINUOUSCLOCK_FEATURE == "FMC_CONTINUOUS_CLOCK_SYNC_ONLY"

(* Answers of the controller library *)
HAL_OK == "HAL_OK"
HalStatus == {"HAL_OK", "HAL_ERROR", "HAL_BUSY", "HAL_TIMEOUT"}
NOR_SUCCESS == "NOR_SUCCESS"
NorStatus == {"NOR_SUCCESS", "NOR_ONGOING", "NOR_ERROR", "NOR_TIMEOUT"}
PinState == {"GPIO_PIN_RESET", "GPIO_PIN_SET"}

----------------------------------------------------------------------------
(* Inputs explored *)

\* 16-bit words a caller buffer may hold
Words == {255, 3855}
\* value of an erased cell
ErasedWord == 65535

\* caller-supplied offsets: a small one, and one for which base + offset is
\* 0xFFFFFFFE, so that the next word carries out of 32 bits
SmallOffset == <<0, 4>>
WrapOffset == <<40959, 65534>>
Offsets == {SmallOffset, WrapOffset}

\* caller buffers of at most MaxLen words
Buffers == UNION {[1..n -> Words] : n \in 0..MaxLen}

----------------------------------------------------------------------------
(* The NOR device behind the controller: content by bus address.  A cell    *)
(* that is not in the domain holds ErasedWord.                              *)

Erased == [a \in {} |-> ErasedWord]

Cell(m, a) == IF a \in DOMAIN m THEN m[a] ELSE ErasedWord

\* the cell at bus address a is programmed with word w (the cell is erased:
\* the program functions are explored on the erased device)
DevProgram(m, a, w) == [x \in (DOMAIN m) \cup {a} |-> IF x = a THEN w ELSE m[x]]

\* n words of buf are programmed from bus address a on
RECURSIVE DevProgramBuffer(_, _, _, _)
DevProgramBuffer(m, a, buf, n) ==
  IF n = 0 THEN m
  ELSE DevProgramBuffer(DevProgram(m, a, buf[1]), Add32(a, U32(2)), Tail(buf), n - 1)

\* n words are fetched from bus address a on
RECURSIVE DevReadBuffer(_, _, _)
DevReadBuffer(m, a, n) ==
  IF n = 0 THEN <<>>
  ELSE <<Cell(m, a)>> \o DevReadBuffer(m, Add32(a, U32(2)), n - 1)

\* the 128 KiB block a bus address lies in
BlockOf(a) == a[1] \div 2

\* the block holding bus address a is erased
DevEraseBlock(m, a) == [x \in {y \in DOMAIN m : BlockOf(y) # BlockOf(a)} |-> m[x]]

----------------------------------------------------------------------------
(* State *)

VARIABLES
  norHandle,   \* static NOR_HandleTypeDef norHandle
  Timing,      \* static FMC_NORSRAM_TimingTypeDef Timing
  inited,      \* BSP_NOR_Init has been called at least once
  opened,      \* the last controller open reported HAL_OK
  mem,         \* content of the NOR device
  readMode,    \* the device is in read-array mode
  op,          \* the last public call: arguments, controller calls, answers, result
  waitPc,      \* HAL_NOR_MspWait: position
  Timeout,     \* HAL_NOR_MspWait: parameter Timeout
  timeout,     \* HAL_NOR_MspWait: local counter
  nReads,      \* HAL_NOR_MspWait: pin reads of the running call
  nDecs        \* HAL_NOR_MspWait: counter decrements of the running call

drvVars == <<norHandle, Timing, inited, opened, mem, readMode, op>>
waitVars == <<waitPc, Timeout, timeout, nReads, nDecs>>
vars == <<norHandle, Timing, inited, opened, mem, readMode, op,
          waitPc, Timeout, timeout, nReads, nDecs>>

\* zero-initialised statics
ZeroTiming ==
  [AddressSetupTime |-> 0, AddressHoldTime |-> 0, DataSetupTime |-> 0,
   BusTurnAroundDuration |-> 0, CLKDivision |-> 0, DataLatency |-> 0,
   AccessMode |-> "0"]

ZeroHandle ==
  [Instance |-> "0", Extended |-> "0",
   Init |-> [NSBank |-> "0", DataAddressMux |-> "0", MemoryType |-> "0",
             MemoryDataWidth |-> "0", BurstAccessMode |-> "0",
             WaitSignalPolarity |-> "0", WrapMode |-> "0",
             WaitSignalActive |-> "0", WriteOperation |-> "0",
             WaitSignal |-> "0", ExtendedMode |-> "0",
             AsynchronousWait |-> "0", WriteBurst |-> "0",
             ContinuousClock |-> "0"]]

\* record of one public call
OpRec(name, addr, data, polls, calls, ret, out) ==
  [name |-> name, addr |-> addr, data |-> data, polls |-> polls,
   calls |-> calls, ret |-> ret, out |-> out]

Init ==
  /\ norHandle = ZeroHandle
  /\ Timing = ZeroTiming
  /\ inited = FALSE
  /\ opened = FALSE
  /\ mem = Erased
  /\ readMode = TRUE
  /\ op = OpRec("none", <<0, 0>>, <<>>, <<>>, <<>>, NOR_STATUS_OK, <<>>)
  /\ waitPc = "idle"
  /\ Timeout = 0
  /\ timeout = 0
  /\ nReads = 0
  /\ nDecs = 0

----------------------------------------------------------------------------
(* BSP_NOR_Init *)

\* variant that leaves DataLatency as it is
InitTimingPartial(t) ==
  [t EXCEPT !.AddressSetupTime = 8, !.AddressHoldTime = 3, !.DataSetupTime = 9,
            !.BusTurnAroundDuration = 0, !.CLKDivision = 2,
            !.AccessMode = "FMC_ACCESS_MODE_A"]

\* the timing record as BSP_NOR_Init writes it
InitTiming(t) ==
  [t EXCEPT !.AddressSetupTime = 8, !.AddressHoldTime = 3, !.DataSetupTime = 9,
            !.BusTurnAroundDuration = 0, !.CLKDivision = 2, !.DataLatency = 2,
            !.AccessMode = "FMC_ACCESS_MODE_A"]

\* the handle as BSP_NOR_Init writes it
InitHandle(h) ==
  [h EXCEPT !.Instance = "FMC_NORSRAM_DEVICE",
            !.Extended = "FMC_NORSRAM_EXTENDED_DEVICE",
            !.Init.NSBank = "FMC_NORSRAM_BANK1",
            !.Init.DataAddressMux = "FMC_DATA_ADDRESS_MUX_DISABLE",
            !.Init.MemoryType = "FMC_MEMORY_TYPE_NOR",
            !.Init.MemoryDataWidth = NOR_MEMORY_WIDTH,
            !.Init.BurstAccessMode = NOR_BURSTACCESS,
            !.Init.WaitSignalPolarity = "FMC_WAIT_SIGNAL_POLARITY_LOW",
            !.Init.WrapMode = "FMC_WRAP_MODE_DISABLE",
            !.Init.WaitSignalActive = "FMC_WAIT_TIMING_BEFORE_WS",
            !.Init.WriteOperation = "FMC_WRITE_OPERATION_ENABLE",
            !.Init.WaitSignal = "FMC_WAIT_SIGNAL_ENABLE",
            !.Init.ExtendedMode = "FMC_EXTENDED_MODE_DISABLE",
            !.Init.AsynchronousWait = "FMC_ASYNCHRONOUS_WAIT_ENABLE",
            !.Init.WriteBurst = NOR_WRITEBURST,
            !.Init.ContinuousClock = CONTINUOUSCLOCK_FEATURE]

\* what the board-setup hook may be: the default of this file or an override
MspHooks == {"default", "override"}

\* variant that calls the hook before the configuration is written
InitCallsHookFirst(h, t, hook) ==
  LET h1 == InitHandle(h)
      t1 == InitTiming(t)
  IN  << [fn |-> "BSP_NOR_MspInit", hook |-> hook, hnor |-> h, timing |-> t],
         [fn |-> "HAL_NOR_Init", hnor |-> h1,
          Timing |-> "&Timing", ExtTiming |-> "&Timing",
          timing |-> t1, exttiming |-> t1] >>

\* the controller calls of BSP_NOR_Init, each with the configuration it sees
InitCalls(h, t, hook) ==
  LET h1 == InitHandle(h)
      t1 == InitTiming(t)
  IN  << [fn |-> "BSP_NOR_MspInit", hook |-> hook, hnor |-> h1, timing |-> t1],
         [fn |-> "HAL_NOR_Init", hnor |-> h1,
          Timing |-> "&Timing", ExtTiming |-> "&Timing",
          timing |-> t1, exttiming |-> t1] >>

\* result of BSP_NOR_Init for the answer st of HAL_NOR_Init
InitRet(st) == IF st # HAL_OK THEN NOR_STATUS_ERROR ELSE NOR_STATUS_OK

BSP_NOR_Init ==
  /\ \E hook \in MspHooks, st \in HalStatus :
       /\ norHandle' = InitHandle(norHandle)
       /\ Timing' = InitTiming(Timing)
       /\ inited' = TRUE
       /\ opened' = (st = HAL_OK)
       /\ op' = OpRec("BSP_NOR_Init", <<0, 0>>, <<>>, <<st>>,
                      InitCalls(norHandle, Timing, hook), InitRet(st), <<>>)
  /\ UNCHANGED <<mem, readMode>>
  /\ UNCHANGED waitVars

----------------------------------------------------------------------------
(* Controller calls issued by the read / program / erase functions *)

CallReadBuffer(a, n) == [fn |-> "HAL_NOR_ReadBuffer", addr |-> a, size |-> n]
CallReturnToReadMode == [fn |-> "HAL_NOR_ReturnToReadMode"]
CallProgram(a, w) == [fn |-> "HAL_NOR_Program", addr |-> a, word |-> w]
CallProgramBuffer(a, buf, n) ==
  [fn |-> "HAL_NOR_ProgramBuffer", addr |-> a, buf |-> buf, size |-> n]
CallEraseBlock(b, a) == [fn |-> "HAL_NOR_Erase_Block", block |-> b, addr |-> a]
CallEraseChip(a) == [fn |-> "HAL_NOR_Erase_Chip", addr |-> a]
CallGetStatus(a, t) == [fn |-> "HAL_NOR_GetStatus", addr |-> a, timeout |-> t]
CallReadID == [fn |-> "HAL_NOR_Read_ID"]

\* variant that takes only a timed-out poll for a failure
PollRetTimeoutOnly(st) == IF st = "NOR_TIMEOUT" THEN NOR_STATUS_ERROR ELSE NOR_STATUS_OK

\* NOR_STATUS of a function that ends on a status poll answering st
PollRet(st) == IF st # NOR_SUCCESS THEN NOR_STATUS_ERROR ELSE NOR_STATUS_OK

\* variant that takes only HAL_ERROR for a failure
HalRetErrorOnly(st) == IF st = "HAL_ERROR" THEN NOR_STATUS_ERROR ELSE NOR_STATUS_OK

\* NOR_STATUS of a function that ends on a controller call answering st
HalRet(st) == IF st # HAL_OK THEN NOR_STATUS_ERROR ELSE NOR_STATUS_OK

----------------------------------------------------------------------------
(* BSP_NOR_ReadData *)

ReadDataCalls(uwStartAddress, uwDataSize) ==
  << CallReadBuffer(Add32(NOR_DEVICE_ADDR, uwStartAddress), uwDataSize) >>

BSP_NOR_ReadData ==
  /\ \E uwStartAddress \in Offsets, uwDataSize \in 0..MaxLen, st \in HalStatus :
       LET calls == ReadDataCalls(uwStartAddress, uwDataSize)
           out   == IF st = HAL_OK
                    THEN DevReadBuffer(mem, calls[1].addr, calls[1].size)
                    ELSE <<>>
       IN  op' = OpRec("BSP_NOR_ReadData", uwStartAddress, <<>>, <<st>>,
                       calls, HalRet(st), out)
  /\ UNCHANGED <<norHandle, Timing, inited, opened, mem, readMode>>
  /\ UNCHANGED waitVars

----------------------------------------------------------------------------
(* BSP_NOR_ReturnToReadMode *)

ReturnToReadModeCalls == << CallReturnToReadMode >>

BSP_NOR_ReturnToReadMode ==
  /\ op' = OpRec("BSP_NOR_ReturnToReadMode", <<0, 0>>, <<>>, <<>>,
                 ReturnToReadModeCalls, NOR_STATUS_OK, <<>>)
  /\ readMode' = TRUE
  /\ UNCHANGED <<norHandle, Timing, inited, opened, mem>>
  /\ UNCHANGED waitVars

----------------------------------------------------------------------------
(* BSP_NOR_WriteData *)

\* The while loop of BSP_NOR_WriteData.  index, uwStartAddress and pData are
\* the locals of the function (pData is the position in the caller buffer
\* data); answers are the answers of the controller to the status polls, in
\* order; calls, used and m accumulate the controller calls issued, the
\* answers consumed and the device content.
RECURSIVE WriteLoop(_, _, _, _, _, _, _, _)
RECURSIVE WriteLoopNoStop(_, _, _, _, _, _, _, _)

\* variant of the loop that does not return on a failed poll
WriteLoopNoStop(index, uwStartAddress, pData, data, answers, calls, used, m) ==
  IF index > 0
  THEN LET target == Add32(NOR_DEVICE_ADDR, uwStartAddress)
           calls1 == Append(calls, CallProgram(target, data[pData]))
           m1     == DevProgram(m, target, data[pData])
           calls2 == Append(calls1, CallGetStatus(NOR_DEVICE_ADDR, PROGRAM_TIMEOUT))
           used1  == Append(used, answers[1])
       IN  WriteLoopNoStop(index - 1, Add32(uwStartAddress, U32(2)), pData + 1,
                           data, Tail(answers), calls2, used1, m1)
  ELSE [ret |-> IF \E i \in 1..Len(used) : used[i] # NOR_SUCCESS
                THEN NOR_STATUS_ERROR ELSE NOR_STATUS_OK,
        calls |-> calls, polls |-> used, mem |-> m]

WriteLoop(index, uwStartAddress, pData, data, answers, calls, used, m) ==
  IF index > 0
  THEN LET target == Add32(NOR_DEVICE_ADDR, uwStartAddress)
           calls1 == Append(calls, CallProgram(target, data[pData]))
           m1     == DevProgram(m, target, data[pData])
           st     == answers[1]
           calls2 == Append(calls1, CallGetStatus(NOR_DEVICE_ADDR, PROGRAM_TIMEOUT))
           used1  == Append(used, st)
       IN  IF st # NOR_SUCCESS
           THEN [ret |-> NOR_STATUS_ERROR, calls |-> calls2, polls |-> used1, mem |-> m1]
           ELSE WriteLoop(index - 1, Add32(uwStartAddress, U32(2)), pData + 1,
                          data, Tail(answers), calls2, used1, m1)
  ELSE [ret |-> NOR_STATUS_OK, calls |-> calls, polls |-> used, mem |-> m]

\* BSP_NOR_WriteData(uwStartAddress, pData, uwDataSize) on device content m
WriteData(uwStartAddress, data, uwDataSize, answers, m) ==
  WriteLoop(uwDataSize, uwStartAddress, 1, data, answers, <<>>, <<>>, m)

\* NOR flash is erased before it is programmed: the call is explored on the
\* erased device
BSP_NOR_WriteData ==
  /\ mem = Erased
  /\ \E uwStartAddress \in Offsets, data \in Buffers :
       \E answers \in [1..Len(data) -> NorStatus] :
         LET r == WriteData(uwStartAddress, data, Len(data), answers, mem)
         IN  /\ op' = OpRec("BSP_NOR_WriteData", uwStartAddress, data, r.polls,
                            r.calls, r.ret, <<>>)
             /\ mem' = r.mem
             /\ readMode' = IF Len(r.calls) > 0 THEN FALSE ELSE readMode
  /\ UNCHANGED <<norHandle, Timing, inited, opened>>
  /\ UNCHANGED waitVars

----------------------------------------------------------------------------
(* BSP_NOR_ProgramData *)

\* variant that returns the device to read mode after the poll
ProgramDataCallsAutoRead(uwStartAddress, data, uwDataSize) ==
  << CallProgramBuffer(uwStartAddress, data, uwDataSize),
     CallGetStatus(NOR_DEVICE_ADDR, PROGRAM_TIMEOUT),
     CallReturnToReadMode >>

ProgramDataCalls(uwStartAddress, data, uwDataSize) ==
  << CallProgramBuffer(uwStartAddress, data, uwDataSize),
     CallGetStatus(NOR_DEVICE_ADDR, PROGRAM_TIMEOUT) >>

\* BSP_NOR_ProgramData(uwStartAddress, pData, uwDataSize) on device content m
ProgramData(uwStartAddress, data, uwDataSize, st, m) ==
  LET calls == ProgramDataCalls(uwStartAddress, data, uwDataSize)
  IN  [ret |-> PollRet(st), calls |-> calls, polls |-> <<st>>,
       mem |-> DevProgramBuffer(m, calls[1].addr, calls[1].buf, calls[1].size)]

\* explored on the erased device, as BSP_NOR_WriteData
BSP_NOR_ProgramData ==
  /\ mem = Erased
  /\ \E uwStartAddress \in Offsets, data \in Buffers, st \in NorStatus :
       LET r == ProgramData(uwStartAddress, data, Len(data), st, mem)
       IN  /\ op' = OpRec("BSP_NOR_ProgramData", uwStartAddress, data, r.polls,
                          r.calls, r.ret, <<>>)
           /\ mem' = r.mem
  /\ readMode' = FALSE
  /\ UNCHANGED <<norHandle, Timing, inited, opened>>
  /\ UNCHANGED waitVars

----------------------------------------------------------------------------
(* BSP_NOR_Erase_Block, BSP_NOR_Erase_Chip *)

\* variant that polls the erased block with the program budget
EraseBlockCallsProgram(BlockAddress) ==
  << CallEraseBlock(BlockAddress, NOR_DEVICE_ADDR),
     CallGetStatus(Add32(NOR_DEVICE_ADDR, BlockAddress), PROGRAM_TIMEOUT) >>

EraseBlockCalls(BlockAddress) ==
  << CallEraseBlock(BlockAddress, NOR_DEVICE_ADDR),
     CallGetStatus(NOR_DEVICE_ADDR, BLOCKERASE_TIMEOUT) >>

BSP_NOR_Erase_Block ==
  /\ \E BlockAddress \in Offsets, st \in NorStatus :
       LET calls == EraseBlockCalls(BlockAddress)
       IN  /\ op' = OpRec("BSP_NOR_Erase_Block", BlockAddress, <<>>, <<st>>,
                          calls, PollRet(st), <<>>)
           /\ mem' = DevEraseBlock(mem, Add32(calls[1].block, calls[1].addr))
  /\ readMode' = FALSE
  /\ UNCHANGED <<norHandle, Timing, inited, opened>>
  /\ UNCHANGED waitVars

EraseChipCalls ==
  << CallEraseChip(NOR_DEVICE_ADDR),
     CallGetStatus(NOR_DEVICE_ADDR, CHIPERASE_TIMEOUT) >>

BSP_NOR_Erase_Chip ==
  /\ \E st \in NorStatus :
       op' = OpRec("BSP_NOR_Erase_Chip", <<0, 0>>, <<>>, <<st>>,
                   EraseChipCalls, PollRet(st), <<>>)
  /\ mem' = Erased
  /\ readMode' = FALSE
  /\ UNCHANGED <<norHandle, Timing, inited, opened>>
  /\ UNCHANGED waitVars

----------------------------------------------------------------------------
(* BSP_NOR_Read_ID *)

ReadIDCalls == << CallReadID >>

BSP_NOR_Read_ID ==
  /\ \E st \in HalStatus :
       op' = OpRec("BSP_NOR_Read_ID", <<0, 0>>, <<>>, <<st>>,
                   ReadIDCalls, HalRet(st), <<>>)
  /\ UNCHANGED <<norHandle, Timing, inited, opened, mem, readMode>>
  /\ UNCHANGED waitVars

----------------------------------------------------------------------------
(* The driver: any sequence of public calls *)

Next ==
  \/ BSP_NOR_Init
  \/ BSP_NOR_ReadData
  \/ BSP_NOR_ReturnToReadMode
  \/ BSP_NOR_WriteData
  \/ BSP_NOR_ProgramData
  \/ BSP_NOR_Erase_Block
  \/ BSP_NOR_Erase_Chip
  \/ BSP_NOR_Read_ID

Spec == Init /\ [][Next]_vars
----------------------------------------------------------------------------
(* HAL_NOR_MspWait: the callback the controller library calls while it      *)
(* waits for the device.  One step per evaluation of a loop condition       *)
(* (which reads the pin once), per loop body and per assignment.            *)

\* variant with || in place of &&
Loop1CondOr(p, t) == (p # NOR_BUSY_STATE) \/ (t > 0)

\* the condition of the first loop, for pin level p
Loop1Cond(p, t) == (p # NOR_BUSY_STATE) /\ (t > 0)

\* the condition of the second loop, for pin level p
Loop2Cond(p, t) == (p # NOR_READY_STATE) /\ (t > 0)

\* the budget the second loop starts with
Loop2Budget(T) == T

\* entry: uint32_t timeout = Timeout
MspWait_Call ==
  /\ waitPc = "idle"
  /\ \E T \in 0..MaxTimeout :
       /\ Timeout' = T
       /\ timeout' = T
  /\ nReads' = 0
  /\ nDecs' = 0
  /\ waitPc' = "test1"
  /\ UNCHANGED drvVars

\* while((HAL_GPIO_ReadPin(...) != NOR_BUSY_STATE) && (timeout > 0))
MspWait_Test1 ==
  /\ waitPc = "test1"
  /\ \E p \in PinState :
       waitPc' = IF Loop1Cond(p, timeout) THEN "body1" ELSE "reset"
  /\ nReads' = nReads + 1
  /\ UNCHANGED <<Timeout, timeout, nDecs>>
  /\ UNCHANGED drvVars

\* timeout--
MspWait_Body1 ==
  /\ waitPc = "body1"
  /\ timeout' = timeout - 1
  /\ nDecs' = nDecs + 1
  /\ waitPc' = "test1"
  /\ UNCHANGED <<Timeout, nReads>>
  /\ UNCHANGED drvVars

\* timeout = Timeout
MspWait_Reset ==
  /\ waitPc = "reset"
  /\ timeout' = Loop2Budget(Timeout)
  /\ waitPc' = "test2"
  /\ UNCHANGED <<Timeout, nReads, nDecs>>
  /\ UNCHANGED drvVars

\* while((HAL_GPIO_ReadPin(...) != NOR_READY_STATE) && (timeout > 0))
MspWait_Test2 ==
  /\ waitPc = "test2"
  /\ \E p \in PinState :
       waitPc' = IF Loop2Cond(p, timeout) THEN "body2" ELSE "done"
  /\ nReads' = nReads + 1
  /\ UNCHANGED <<Timeout, timeout, nDecs>>
  /\ UNCHANGED drvVars

\* timeout--
MspWait_Body2 ==
  /\ waitPc = "body2"
  /\ timeout' = timeout - 1
  /\ nDecs' = nDecs + 1
  /\ waitPc' = "test2"
  /\ UNCHANGED <<Timeout, nReads>>
  /\ UNCHANGED drvVars

\* the function returns
MspWait_Return ==
  /\ waitPc = "done"
  /\ waitPc' = "idle"
  /\ UNCHANGED <<Timeout, timeout, nReads, nDecs>>
  /\ UNCHANGED drvVars

WaitNext ==
  \/ MspWait_Call
  \/ MspWait_Test1
  \/ MspWait_Body1
  \/ MspWait_Reset
  \/ MspWait_Test2
  \/ MspWait_Body2
  \/ MspWait_Return

\* the callback runs on the calling thread: a started step is taken
WaitSpec == Init /\ [][WaitNext]_vars /\ WF_vars(WaitNext)
----------------------------------------------------------------------------
(* Properties *)

OK == NOR_STATUS_OK
ERROR == NOR_STATUS_ERROR

\* position of the first non-success answer in a sequence of poll answers
\* (Len + 1 when all report success)
FirstFail(polls) ==
  IF \E i \in 1..Len(polls) : polls[i] # NOR_SUCCESS
  THEN CHOOSE i \in 1..Len(polls) :
         /\ polls[i] # NOR_SUCCESS
         /\ \A j \in 1..(i - 1) : polls[j] = NOR_SUCCESS
  ELSE Len(polls) + 1

\* bus address of word i (from 0) of a write that starts at offset a
WordAddr(a, i) == Add32(Add32(NOR_DEVICE_ADDR, a), U32(2 * i))

\* C1: BSP_NOR_WriteData(addr, data, N) issues program and status-poll calls
\* in strict alternation, word i being data[i] programmed at base + addr + 2*i;
\* with every poll successful it issues N programs and N polls and returns OK
\* (none for N = 0); when the first failing poll is the one after word k it
\* issues exactly k+1 programs and k+1 polls, nothing afterwards, returns
\* ERROR, and words 0..k-1 stay programmed.
C1_WriteDataFailFast ==
  (op.name = "BSP_NOR_WriteData") =>
    LET N == Len(op.data)
        P == Len(op.polls)
        f == FirstFail(op.polls)
    IN  /\ P <= N
        /\ Len(op.calls) = 2 * P
        /\ \A i \in 1..P :
             /\ op.calls[2 * i - 1].fn = "HAL_NOR_Program"
             /\ op.calls[2 * i - 1].addr = WordAddr(op.addr, i - 1)
             /\ op.calls[2 * i - 1].word = op.data[i]
             /\ op.calls[2 * i].fn = "HAL_NOR_GetStatus"
        /\ (f = P + 1) => (P = N /\ op.ret = OK)
        /\ (f <= P) => (f = P /\ op.ret = ERROR)
        /\ \A i \in 1..(f - 1) : Cell(mem, WordAddr(op.addr, i - 1)) = op.data[i]

\* a two-word write at the wrapping offset whose second poll fails
C1_Witness ==
  /\ op.name = "BSP_NOR_WriteData"
  /\ op.addr = WrapOffset
  /\ Len(op.data) = 2
  /\ Len(op.polls) = 2
  /\ op.polls[1] = NOR_SUCCESS
  /\ op.polls[2] = "NOR_TIMEOUT"
  /\ op.ret = ERROR

\* what BSP_NOR_ReadData(a, buf, n) fetches from device content m
ReadBack(m, a, n) == DevReadBuffer(m, ReadDataCalls(a, n)[1].addr, n)

\* poll answers that all report success
AllSuccess(n) == [i \in 1..n |-> NOR_SUCCESS]

\* C2: from the erased device, BSP_NOR_ProgramData(addr, data, count) and
\* BSP_NOR_WriteData(addr, data, count) that both return OK leave the same
\* device content, and a following BSP_NOR_ReadData(addr, buf, count) returns
\* the same words after either.
C2_SameContent ==
  (op.name \in {"BSP_NOR_WriteData", "BSP_NOR_ProgramData"}) =>
    LET n == Len(op.data)
        w == WriteData(op.addr, op.data, n, AllSuccess(n), Erased)
        p == ProgramData(op.addr, op.data, n, NOR_SUCCESS, Erased)
    IN  (w.ret = OK /\ p.ret = OK) =>
          /\ w.mem = p.mem
          /\ ReadBack(w.mem, op.addr, n) = ReadBack(p.mem, op.addr, n)

\* the bus address the first controller call of the last public call designates
HandedAddress ==
  IF op.name = "BSP_NOR_Erase_Block"
  THEN Add32(op.calls[1].block, op.calls[1].addr)
  ELSE op.calls[1].addr

\* C3: every public function that takes an address treats it as an offset
\* and hands base + offset to the controller.
C3_BaseAdded ==
  (/\ op.name \in {"BSP_NOR_ReadData", "BSP_NOR_WriteData",
                   "BSP_NOR_ProgramData", "BSP_NOR_Erase_Block"}
   /\ Len(op.calls) > 0)
    => HandedAddress = Add32(NOR_DEVICE_ADDR, op.addr)

Operations ==
  {"BSP_NOR_ReadData", "BSP_NOR_WriteData", "BSP_NOR_ProgramData",
   "BSP_NOR_Erase_Block", "BSP_NOR_Erase_Chip", "BSP_NOR_Read_ID"}

\* the last BSP_NOR_Init returned ERROR and the last call is an operation
AfterFailedInit == inited /\ ~opened /\ op.name \in Operations

\* C4 (as claimed): after a BSP_NOR_Init that returned ERROR, every operation
\* returns ERROR until an Init succeeds.
C4_AlwaysError == AfterFailedInit => op.ret = ERROR

\* the controller reported a non-success value to the last public call
ControllerFailed ==
  \E i \in 1..Len(op.polls) : op.polls[i] \notin {HAL_OK, NOR_SUCCESS}

\* C4 (amended): after a BSP_NOR_Init that returned ERROR the driver applies
\* no guard of its own: an operation still issues its controller calls and
\* returns ERROR exactly when the controller reports a non-success value to
\* it; BSP_NOR_WriteData of no words issues no call and returns OK.
C4_ErrorIffControllerFails ==
  AfterFailedInit =>
    /\ (op.ret = ERROR) <=> ControllerFailed
    /\ (op.ret = OK) <=> ~ControllerFailed
    /\ (Len(op.calls) = 0) <=> (op.name = "BSP_NOR_WriteData" /\ Len(op.data) = 0)
    /\ (op.name = "BSP_NOR_WriteData" /\ Len(op.data) = 0) => op.ret = OK

\* a write of no words after a failed Init returns OK
C4_Witness ==
  /\ AfterFailedInit
  /\ op.name = "BSP_NOR_WriteData"
  /\ Len(op.data) = 0
  /\ op.ret = OK

\* the command each single-command function issues
CommandOf(name) ==
  CASE name = "BSP_NOR_ProgramData" -> "HAL_NOR_ProgramBuffer"
    [] name = "BSP_NOR_Erase_Block" -> "HAL_NOR_Erase_Block"
    [] name = "BSP_NOR_Erase_Chip"  -> "HAL_NOR_Erase_Chip"

\* C5: BSP_NOR_ProgramData, BSP_NOR_Erase_Block and BSP_NOR_Erase_Chip issue
\* their command exactly once, then poll the status exactly once, and return
\* OK if and only if that poll reports success; any other answer gives ERROR,
\* with no retry of the command or of the poll.
C5_OneCommandOnePoll ==
  (op.name \in {"BSP_NOR_ProgramData", "BSP_NOR_Erase_Block", "BSP_NOR_Erase_Chip"}) =>
    /\ Len(op.calls) = 2
    /\ op.calls[1].fn = CommandOf(op.name)
    /\ op.calls[2].fn = "HAL_NOR_GetStatus"
    /\ Len(op.polls) = 1
    /\ (op.ret = OK) <=> (op.polls[1] = "NOR_SUCCESS")
    /\ (op.ret = ERROR) <=> (op.polls[1] \in {"NOR_ONGOING", "NOR_ERROR", "NOR_TIMEOUT"})

\* a chip erase whose poll is still ongoing when the budget is used up
C5_Witness ==
  /\ op.name = "BSP_NOR_Erase_Chip"
  /\ op.polls = <<"NOR_ONGOING">>
  /\ op.ret = ERROR

\* the configuration of the board
BoardTiming ==
  [AddressSetupTime |-> 8, AddressHoldTime |-> 3, DataSetupTime |-> 9,
   BusTurnAroundDuration |-> 0, CLKDivision |-> 2, DataLatency |-> 2,
   AccessMode |-> "FMC_ACCESS_MODE_A"]

BoardHandle ==
  [Instance |-> "FMC_NORSRAM_DEVICE", Extended |-> "FMC_NORSRAM_EXTENDED_DEVICE",
   Init |-> [NSBank |-> "FMC_NORSRAM_BANK1",
             DataAddressMux |-> "FMC_DATA_ADDRESS_MUX_DISABLE",
             MemoryType |-> "FMC_MEMORY_TYPE_NOR",
             MemoryDataWidth |-> "FMC_NORSRAM_MEM_BUS_WIDTH_16",
             BurstAccessMode |-> "FMC_BURST_ACCESS_MODE_DISABLE",
             WaitSignalPolarity |-> "FMC_WAIT_SIGNAL_POLARITY_LOW",
             WrapMode |-> "FMC_WRAP_MODE_DISABLE",
             WaitSignalActive |-> "FMC_WAIT_TIMING_BEFORE_WS",
             WriteOperation |-> "FMC_WRITE_OPERATION_ENABLE",
             WaitSignal |-> "FMC_WAIT_SIGNAL_ENABLE",
             ExtendedMode |-> "FMC_EXTENDED_MODE_DISABLE",
             AsynchronousWait |-> "FMC_ASYNCHRONOUS_WAIT_ENABLE",
             WriteBurst |-> "FMC_WRITE_BURST_DISABLE",
             ContinuousClock |-> "FMC_CONTINUOUS_CLOCK_SYNC_ONLY"]]

\* C6: every BSP_NOR_Init first populates the whole configuration, then calls
\* BSP_NOR_MspInit exactly once, then calls the controller open exactly once
\* with the same timing record for the standard and the extended profile; it
\* returns OK if and only if the open reports success, whatever the hook is.
C6_InitSequence ==
  (op.name = "BSP_NOR_Init") =>
    /\ Len(op.calls) = 2
    /\ op.calls[1].fn = "BSP_NOR_MspInit"
    /\ op.calls[1].hnor = BoardHandle
    /\ op.calls[1].timing = BoardTiming
    /\ op.calls[2].fn = "HAL_NOR_Init"
    /\ op.calls[2].hnor = BoardHandle
    /\ op.calls[2].Timing = op.calls[2].ExtTiming
    /\ op.calls[2].timing = BoardTiming
    /\ op.calls[2].exttiming = BoardTiming
    /\ (op.ret = OK) <=> (op.polls = <<"HAL_OK">>)
    /\ (op.ret = ERROR) <=> (op.polls[1] \in {"HAL_ERROR", "HAL_BUSY", "HAL_TIMEOUT"})

\* a second Init, with an overriding hook, whose open fails
C6_Witness ==
  /\ op.name = "BSP_NOR_Init"
  /\ op.calls[1].hook = "override"
  /\ op.polls = <<"HAL_TIMEOUT">>
  /\ op.ret = ERROR

\* the last public call issued the return-to-read-mode command n times
ReadModeCommands(o) ==
  Cardinality({i \in 1..Len(o.calls) : o.calls[i].fn = "HAL_NOR_ReturnToReadMode"})

\* one public call, as far as read mode is concerned
C7_Step ==
  /\ (op'.name # "BSP_NOR_ReturnToReadMode") => ReadModeCommands(op') = 0
  /\ (op'.name = "BSP_NOR_ReturnToReadMode") =>
       (op'.calls = <<[fn |-> "HAL_NOR_ReturnToReadMode"]>> /\ readMode')
  /\ (/\ op'.name \in {"BSP_NOR_WriteData", "BSP_NOR_ProgramData",
                       "BSP_NOR_Erase_Block", "BSP_NOR_Erase_Chip"}
      /\ Len(op'.calls) > 0) => ~readMode'
  /\ (~readMode /\ op'.name # "BSP_NOR_ReturnToReadMode") => ~readMode'

\* C7: the return-to-read-mode command is issued only by
\* BSP_NOR_ReturnToReadMode, exactly once per call and unconditionally, after
\* which the device is in read mode; the write, program and erase functions
\* never issue it, so after a program or erase the device stays out of read
\* mode until the caller calls BSP_NOR_ReturnToReadMode.
C7_ReadModeOnlyOnRequest == [][C7_Step]_vars

\* a read issued while the device is still out of read mode
C7_Witness ==
  /\ ~readMode
  /\ op.name = "BSP_NOR_ReadData"
  /\ op.ret = OK

C8_Config ==
  /\ inited => (Timing = BoardTiming /\ norHandle = BoardHandle)
  /\ ~inited => (Timing = ZeroTiming /\ norHandle = ZeroHandle)

\* C8: after the first BSP_NOR_Init the timing record and the handle hold the
\* board constants in every state, whatever calls follow and whether or not
\* the open succeeded; no call other than BSP_NOR_Init writes them, and every
\* BSP_NOR_Init leaves the same values.
C8_ConfigFixed ==
  /\ []C8_Config
  /\ [][/\ (op'.name # "BSP_NOR_Init") => UNCHANGED <<norHandle, Timing>>
        /\ (op'.name = "BSP_NOR_Init") =>
             (Timing' = BoardTiming /\ norHandle' = BoardHandle)]_vars

\* an erase after an Init whose open failed
C8_Witness ==
  /\ inited
  /\ ~opened
  /\ op.name = "BSP_NOR_Erase_Block"

\* decrements of the running call made by the second loop
Phase2Decs == Timeout - timeout

C9_Bounds ==
  /\ nDecs <= 2 * Timeout
  /\ nReads <= 2 * Timeout + 2
  /\ (waitPc \in {"test1", "body1", "reset"}) =>
       (nDecs = Timeout - timeout /\ nReads <= Timeout + 1)
  /\ (waitPc \in {"test2", "body2", "done"}) =>
       (nDecs - Phase2Decs \in 0..Timeout /\ Phase2Decs \in 0..Timeout)
  /\ (Timeout = 0) => (nDecs = 0 /\ waitPc \notin {"body1", "body2"})

\* C9: HAL_NOR_MspWait terminates for every Timeout and every behaviour of
\* the pin: each of its two phases starts with a budget of Timeout and makes
\* at most Timeout decrements, the call makes at most 2*Timeout decrements
\* and 2*Timeout + 2 pin reads, and with Timeout = 0 no loop body runs.
C9_Terminates ==
  /\ []C9_Bounds
  /\ [][/\ (waitPc = "idle") => (timeout' = Timeout' /\ waitPc' = "test1")
        /\ (waitPc = "reset") => (timeout' = Timeout /\ waitPc' = "test2")
        /\ (waitPc' = "test2") => (waitPc \in {"reset", "body2"})]_vars
  /\ (waitPc = "test1") ~> (waitPc = "done")

\* a call that used both budgets up
C9_Witness ==
  /\ waitPc = "done"
  /\ Timeout > 0
  /\ nDecs = 2 * Timeout
  /\ nReads = 2 * Timeout + 2

\* the timeout constant of each polling function
TimeoutOf(name) ==
  CASE name = "BSP_NOR_WriteData"   -> PROGRAM_TIMEOUT
    [] name = "BSP_NOR_ProgramData" -> PROGRAM_TIMEOUT
    [] name = "BSP_NOR_Erase_Block" -> BLOCKERASE_TIMEOUT
    [] name = "BSP_NOR_Erase_Chip"  -> CHIPERASE_TIMEOUT

\* C10: every status poll of BSP_NOR_WriteData and BSP_NOR_ProgramData uses
\* PROGRAM_TIMEOUT, of BSP_NOR_Erase_Block BLOCKERASE_TIMEOUT, of
\* BSP_NOR_Erase_Chip CHIPERASE_TIMEOUT, and is addressed to NOR_DEVICE_ADDR,
\* whatever the arguments of the call.
C10_FixedPoll ==
  (op.name \in {"BSP_NOR_WriteData", "BSP_NOR_ProgramData",
                "BSP_NOR_Erase_Block", "BSP_NOR_Erase_Chip"}) =>
    \A i \in 1..Len(op.calls) :
      (op.calls[i].fn = "HAL_NOR_GetStatus") =>
        /\ op.calls[i].timeout = TimeoutOf(op.name)
        /\ op.calls[i].addr = NOR_DEVICE_ADDR

\* a block erase at the large offset
C10_Witness ==
  /\ op.name = "BSP_NOR_Erase_Block"
  /\ op.addr = WrapOffset
  /\ Len(op.calls) = 2
  /\ op.calls[2].fn = "HAL_NOR_GetStatus"

====
